---- MODULE Spec2Model ----
(***************************************************************************)
(* A model of ktest.hpp: the assertion protocol (KAssertionResult,         *)
(* KAssertionHelper, the KASSERT_* macros), the self-registering test      *)
(* catalog (getTests, KTestTest) and the runner (runAllTests) with its     *)
(* optional fork-per-test isolation and its exit policy.                   *)
(*                                                                         *)
(* A test body is user code.  It is modelled as a short script of          *)
(* statements, each one of: an assertion that passes or fails, a throw of  *)
(* an exception that is not KAssertionError, a fault that makes the kernel *)
(* kill the process with a signal, and a KASSERT_THROWS whose thrower      *)
(* block raises nothing, raises some exception, or holds a failing         *)
(* assertion.  The number of statements of the body is drawn when test()  *)
(* is called, and each statement when control reaches it.                  *)
(***************************************************************************)
EXTENDS Integers, Sequences, FiniteSets, TLC

\* ---- bounds of the model ----
MaxTests == 3
MaxBody == 2

\* ---- signal numbers (Linux) ----
SIGABRT == 6
SIGSEGV == 11

Names == {"A", "B"}
EnvValues == {"NULL", "1", "0"}

\* Exception kinds a test body can raise; "none" is the absence of one, "int"
\* a thrown value that is no std::exception.
Parent(k) ==
    CASE k = "KAssertionError" -> "exception"
      [] k = "runtime_error" -> "exception"
      [] k = "logic_error" -> "exception"
      [] OTHER -> "none"

\* catch (const e &) matches an exception of dynamic kind k.
Catches(e, k) == k # "none" /\ (k = e \/ Parent(k) = e)

ExpectedKinds == {"exception", "runtime_error"}
RaisedKinds ==
    {"none", "runtime_error", "logic_error", "KAssertionError", "int"}
Signals == {SIGSEGV}

\* ---- statements of a test body ----
AssertStmt(ok) ==
    [op |-> "assert", ok |-> ok, expected |-> "-", raised |-> "-", sig |-> 0]
ThrowStmt(k) ==
    [op |-> "throw", ok |-> TRUE, expected |-> "-", raised |-> k, sig |-> 0]
FaultStmt(s) ==
    [op |-> "fault", ok |-> TRUE, expected |-> "-", raised |-> "-", sig |-> s]
ThrowsStmt(e, k) ==
    [op |-> "throws", ok |-> TRUE, expected |-> e, raised |-> k, sig |-> 0]

Stmts ==
    {AssertStmt(b) : b \in BOOLEAN}
        \cup {ThrowStmt("runtime_error")}
        \cup {FaultStmt(s) : s \in Signals}
        \cup {ThrowsStmt(e, k) : e \in ExpectedKinds, k \in RaisedKinds}

\* The number of statements a test body has.
BodyLens == 0..MaxBody

VARIABLES
    forkEnv,      \* getenv("KTEST_FORK"), "NULL" when unset
    exitEnv,      \* getenv("KTEST_EXIT"), "NULL" when unset
    tests,        \* getTests(): the catalog
    declared,     \* history: the fn of every KTestTest constructed, in order
    pc,           \* where the main process is
    it,           \* the range-for iterator of runAllTests: index into tests
    shouldFork,
    shouldExit,
    passedTests,
    failedTests,
    frame,        \* the call test() in the main process (non-isolated mode)
    children,     \* child processes: pid -> [st, frame, status]
    out,          \* the lines runAllTests has written (std::cout and
                  \* std::cerr), oldest first
    exitCode      \* status the main process ended with, -1 while it has not

vars == <<forkEnv, exitEnv, tests, declared, pc, it, shouldFork, shouldExit,
          passedTests, failedTests, frame, children, out, exitCode>>

\* ---- Assertion Result ----
KAssertionResult(msg, success) == [msg |-> msg, success |-> success]

\* KAssertionResult(): successful, empty message.
DefaultResult == [msg |-> <<>>, success |-> TRUE]

\* ktest_assert_true and its siblings: the message, and the check as success.
ktest_assert_true(check) == KAssertionResult(<<"ASSERT_TRUE">>, check)

\* ---- the call test(): a frame ----
\* res: "run" while the body runs, "ret" once it has returned, "abort" while
\* a KAssertionError leaves it, "error" while another exception leaves it,
\* "signal" once a signal has killed the process.  aborts counts the
\* KAssertionError thrown; msg is the last diagnostic written by
\* KAssertionHelper.  last, failed and after are history: the statement run
\* last, the failing assertions evaluated, and whether a statement ran after
\* one of them.
NoStmt == [op |-> "-", ok |-> TRUE, expected |-> "-", raised |-> "-", sig |-> 0]

NoFrame ==
    [len |-> 0, ip |-> 0, res |-> "none", exc |-> "none", sig |-> 0,
     aborts |-> 0, msg |-> <<>>, last |-> NoStmt, failed |-> 0,
     after |-> FALSE]

NewFrame(n) ==
    [NoFrame EXCEPT !.len = n, !.ip = 1,
                    !.res = IF n = 0 THEN "ret" ELSE "run"]

\* The statement is done; control reaches the next one, or the body returns.
Advance(f) ==
    [f EXCEPT !.ip = f.ip + 1,
              !.res = IF f.ip + 1 > f.len THEN "ret" ELSE "run"]

\* KAssertionHelper::operator=: write the location and the message, throw.
KAssertionHelperAssign(f, msg) ==
    [f EXCEPT !.msg = msg, !.aborts = f.aborts + 1,
              !.res = "abort", !.exc = "KAssertionError"]

\* if (const KAssertionResult r = (resx)); else KAssertionHelper(...) = ...
KTEST_KASSERT_BASE(f, r) ==
    IF r.success
    THEN Advance(f)
    ELSE KAssertionHelperAssign([f EXCEPT !.failed = f.failed + 1], r.msg)

\* Mutant: the handler for std::exception comes before the one for the
\* expected kind.
ThrowsLambda_StdFirst(expected, raised) ==
    IF raised = "none"
    THEN [esc |-> "none",
          res |-> KAssertionResult(<<"ASSERT_THROWS", "no exception">>, FALSE)]
    ELSE IF Catches("exception", raised)
    THEN [esc |-> "none",
          res |-> KAssertionResult(<<"ASSERT_THROWS", "different", raised>>,
                                   FALSE)]
    ELSE IF Catches(expected, raised)
    THEN [esc |-> "none", res |-> DefaultResult]
    ELSE [esc |-> raised, res |-> DefaultResult]

\* The lambda of KASSERT_THROWS given what the thrower block raises: esc is
\* the exception that leaves the lambda ("none" when it returns), res the
\* result it returns.
ThrowsLambda(expected, raised) ==
    IF raised = "none"
    THEN [esc |-> "none",
          res |-> KAssertionResult(<<"ASSERT_THROWS", "no exception">>, FALSE)]
    ELSE IF Catches(expected, raised)
    THEN [esc |-> "none", res |-> DefaultResult]
    ELSE IF Catches("exception", raised)
    THEN [esc |-> "none",
          res |-> KAssertionResult(<<"ASSERT_THROWS", "different", raised>>,
                                   FALSE)]
    ELSE [esc |-> raised, res |-> DefaultResult]

\* KASSERT_THROWS(expected, captures, thrower).  A thrower that raises
\* KAssertionError is a thrower holding a failing assertion.
KASSERT_THROWS(f, expected, raised) ==
    LET thrown == IF raised = "KAssertionError"
                  THEN KTEST_KASSERT_BASE(f, ktest_assert_true(FALSE))
                  ELSE f
        o == ThrowsLambda(expected, raised)
    IN  IF o.esc # "none"
        THEN [thrown EXCEPT !.res = IF o.esc = "KAssertionError"
                                    THEN "abort" ELSE "error",
                            !.exc = o.esc]
        ELSE KTEST_KASSERT_BASE([thrown EXCEPT !.res = "run", !.exc = "none"],
                                o.res)

\* The body runs statement s.
Exec(f, s) ==
    LET g == [f EXCEPT !.last = s, !.after = f.after \/ f.failed > 0]
    IN  CASE s.op = "assert" -> KTEST_KASSERT_BASE(g, ktest_assert_true(s.ok))
          [] s.op = "throw" -> [g EXCEPT !.res = "error", !.exc = s.raised]
          [] s.op = "fault" -> [g EXCEPT !.res = "signal", !.sig = s.sig]
          [] s.op = "throws" -> KASSERT_THROWS(g, s.expected, s.raised)

\* ---- wait status (sys/wait.h, Linux) ----
ExitStatus(code) == (code % 256) * 256
SignalStatus(sig, core) == sig + (IF core THEN 128 ELSE 0)
WIFEXITED(status) == status % 128 = 0
WEXITSTATUS(status) == (status \div 256) % 256
WIFSIGNALED(status) == status % 128 # 0 /\ status % 128 # 127
WSTOPSIG(status) == (status \div 256) % 256

strsignal(sig) ==
    CASE sig = SIGABRT -> "Aborted"
      [] sig = SIGSEGV -> "Segmentation fault"
      [] OTHER -> "Unknown signal"

\* ---- Test Collector ----
\* Mutant: the new test goes to the front of the catalog.
push_front(v, x) == <<x>> \o v

\* Mutant: a catalog keyed by name, a second test of a name is dropped.
push_back_unique(v, x) ==
    IF \E i \in 1..Len(v) : v[i].name = x.name THEN v ELSE Append(v, x)

\* std::vector::push_back
push_back(v, x) == Append(v, x)

\* A line written by runAllTests: what it says, the test it is about (its
\* position in the catalog and its name), the signal description and the
\* count it carries.
Line(ev, t, signal, n) ==
    [ev |-> ev, test |-> t,
     name |-> IF t \in 1..Len(tests) THEN tests[t].name ELSE "-",
     signal |-> signal, n |-> n]

NoChildren == [p \in {} |-> 0]

Init ==
    /\ forkEnv \in EnvValues
    /\ exitEnv \in EnvValues
    /\ tests = <<>>
    /\ declared = <<>>
    /\ pc = "static_init"
    /\ it = 0
    /\ shouldFork = FALSE
    /\ shouldExit = FALSE
    /\ passedTests = 0
    /\ failedTests = 0
    /\ frame = NoFrame
    /\ children = NoChildren
    /\ out = <<>>
    /\ exitCode = -1

\* KTestTest::KTestTest(name, fn), run by the static object of a KTEST(name).
\* fn, the function the test holds, is named by the rank of its declaration.
Register(n) ==
    /\ pc = "static_init"
    /\ Len(declared) < MaxTests
    /\ LET t == [name |-> n, fn |-> Len(declared) + 1]
       IN  /\ tests' = push_back(tests, t)
           /\ declared' = Append(declared, t.fn)
    /\ UNCHANGED <<forkEnv, exitEnv, pc, it, shouldFork, shouldExit,
                   passedTests, failedTests, frame, children, out, exitCode>>

\* Mutant: the flag is on whenever the variable is set.
EnvFlag_AnyValue(env) == env # "NULL"

\* env != nullptr && !strcmp(env, "1")
EnvFlag(env) == env # "NULL" /\ env = "1"

\* runAllTests up to the loop: the flags, the counters, the iterator.
Begin ==
    /\ pc = "static_init"
    /\ shouldFork' = EnvFlag(forkEnv)
    /\ shouldExit' = EnvFlag(exitEnv)
    /\ failedTests' = 0
    /\ passedTests' = 0
    /\ it' = 1
    /\ pc' = "loop"
    /\ UNCHANGED <<forkEnv, exitEnv, tests, declared, frame, children, out,
                   exitCode>>

\* The loop takes the next test and writes "Running test: <name>".
StartTest ==
    /\ pc = "loop"
    /\ it <= Len(tests)
    /\ out' = Append(out, Line("start", it, "-", 0))
    /\ pc' = "dispatch"
    /\ UNCHANGED <<forkEnv, exitEnv, tests, declared, it, shouldFork,
                   shouldExit, passedTests, failedTests, frame, children,
                   exitCode>>

\* Mutant: the loop ends one test early.
EndLoop_OneEarly ==
    /\ pc = "loop"
    /\ it >= Len(tests)
    /\ pc' = "summary"
    /\ UNCHANGED <<forkEnv, exitEnv, tests, declared, it, shouldFork,
                   shouldExit, passedTests, failedTests, frame, children, out,
                   exitCode>>

\* The loop has no test left.
EndLoop ==
    /\ pc = "loop"
    /\ it > Len(tests)
    /\ pc' = "summary"
    /\ UNCHANGED <<forkEnv, exitEnv, tests, declared, it, shouldFork,
                   shouldExit, passedTests, failedTests, frame, children, out,
                   exitCode>>

\* fork() succeeds: a child exists and enters test(); the parent goes on to
\* waitpid.  The pid of the child of the test at position it is it.
ForkChild ==
    /\ pc = "dispatch"
    /\ shouldFork
    /\ \E n \in BodyLens :
          children' = (it :> [st |-> "running", frame |-> NewFrame(n),
                              status |-> 0]) @@ children
    /\ pc' = "wait"
    /\ UNCHANGED <<forkEnv, exitEnv, tests, declared, it, shouldFork,
                   shouldExit, passedTests, failedTests, frame, out, exitCode>>

\* fork() returns -1: "Error starting test" goes to std::cerr and the loop
\* body ends.
ForkError ==
    /\ pc = "dispatch"
    /\ shouldFork
    /\ out' = Append(out, Line("spawn_error", it, "-", 0))
    /\ it' = it + 1
    /\ pc' = "loop"
    /\ UNCHANGED <<forkEnv, exitEnv, tests, declared, shouldFork, shouldExit,
                   passedTests, failedTests, frame, children, exitCode>>

\* Non-isolated mode: test() is called inside the try block.
CallDirect ==
    /\ pc = "dispatch"
    /\ ~shouldFork
    /\ \E n \in BodyLens : frame' = NewFrame(n)
    /\ pc' = "body"
    /\ UNCHANGED <<forkEnv, exitEnv, tests, declared, it, shouldFork,
                   shouldExit, passedTests, failedTests, children, out,
                   exitCode>>

\* The body runs one statement in the main process; a fault kills the
\* process.
DirectStep ==
    /\ pc = "body"
    /\ frame.res = "run"
    /\ \E s \in Stmts : frame' = Exec(frame, s)
    /\ pc' = IF frame'.res = "signal" THEN "killed" ELSE pc
    /\ UNCHANGED <<forkEnv, exitEnv, tests, declared, it, shouldFork,
                   shouldExit, passedTests, failedTests, children, out,
                   exitCode>>

\* test() returned: the rest of the try block.
DirectPassed ==
    /\ pc = "body"
    /\ frame.res = "ret"
    /\ out' = Append(out, Line("passed", it, "-", 0))
    /\ passedTests' = passedTests + 1
    /\ it' = it + 1
    /\ frame' = NoFrame
    /\ pc' = "loop"
    /\ UNCHANGED <<forkEnv, exitEnv, tests, declared, shouldFork, shouldExit,
                   failedTests, children, exitCode>>

\* catch (const KAssertionError &)
DirectCatch ==
    /\ pc = "body"
    /\ frame.res = "abort"
    /\ out' = Append(out, Line("failed", it, "-", 0))
    /\ failedTests' = failedTests + 1
    /\ it' = it + 1
    /\ frame' = NoFrame
    /\ pc' = "loop"
    /\ UNCHANGED <<forkEnv, exitEnv, tests, declared, shouldFork, shouldExit,
                   passedTests, children, exitCode>>

\* Mutant: a catch (...) that counts the test failed.
DirectEscape_CatchAll ==
    /\ pc = "body"
    /\ frame.res = "error"
    /\ out' = Append(out, Line("failed", it, "-", 0))
    /\ failedTests' = failedTests + 1
    /\ it' = it + 1
    /\ frame' = NoFrame
    /\ pc' = "loop"
    /\ UNCHANGED <<forkEnv, exitEnv, tests, declared, shouldFork, shouldExit,
                   passedTests, children, exitCode>>

\* No handler matches another exception: it leaves runAllTests.
DirectEscape ==
    /\ pc = "body"
    /\ frame.res = "error"
    /\ pc' = "escaped"
    /\ UNCHANGED <<forkEnv, exitEnv, tests, declared, it, shouldFork,
                   shouldExit, passedTests, failedTests, frame, children, out,
                   exitCode>>

\* ---- the child process of isolation mode ----
SetChild(p, c) == [children EXCEPT ![p] = c]

Zombie(c, status) == [c EXCEPT !.st = "zombie", !.status = status]

\* The body runs one statement in the child; a fault makes the kernel kill
\* the child, with or without a core dump.
ChildStep(p) ==
    /\ children[p].st = "running"
    /\ children[p].frame.res = "run"
    /\ \E s \in Stmts :
          LET f == Exec(children[p].frame, s)
              c == [children[p] EXCEPT !.frame = f]
          IN  IF f.res = "signal"
              THEN \E core \in BOOLEAN :
                      children' =
                          SetChild(p, Zombie(c, SignalStatus(f.sig, core)))
              ELSE children' = SetChild(p, c)
    /\ UNCHANGED <<forkEnv, exitEnv, tests, declared, pc, it, shouldFork,
                   shouldExit, passedTests, failedTests, frame, out, exitCode>>

\* Mutant: the child writes the "passed" line itself before it exits.
ChildExit_PrintsPassed(p) ==
    /\ children[p].st = "running"
    /\ children[p].frame.res = "ret"
    /\ children' = SetChild(p, Zombie(children[p], ExitStatus(0)))
    /\ out' = Append(out, Line("passed", p, "-", 0))
    /\ UNCHANGED <<forkEnv, exitEnv, tests, declared, pc, it, shouldFork,
                   shouldExit, passedTests, failedTests, frame, exitCode>>

\* test() returned in the child: exit(0).
ChildExit(p) ==
    /\ children[p].st = "running"
    /\ children[p].frame.res = "ret"
    /\ children' = SetChild(p, Zombie(children[p], ExitStatus(0)))
    /\ UNCHANGED <<forkEnv, exitEnv, tests, declared, pc, it, shouldFork,
                   shouldExit, passedTests, failedTests, frame, out, exitCode>>

\* Mutant: the handler of the child exits with status 0.
ChildCatch_ExitsZero(p) ==
    /\ children[p].st = "running"
    /\ children[p].frame.res = "abort"
    /\ children' = SetChild(p, Zombie(children[p], ExitStatus(0)))
    /\ UNCHANGED <<forkEnv, exitEnv, tests, declared, pc, it, shouldFork,
                   shouldExit, passedTests, failedTests, frame, out, exitCode>>

\* catch (const KAssertionError &) in the child: exit(-1).
ChildCatch(p) ==
    /\ children[p].st = "running"
    /\ children[p].frame.res = "abort"
    /\ children' = SetChild(p, Zombie(children[p], ExitStatus(-1)))
    /\ UNCHANGED <<forkEnv, exitEnv, tests, declared, pc, it, shouldFork,
                   shouldExit, passedTests, failedTests, frame, out, exitCode>>

\* Another exception finds no handler in the child: std::terminate calls
\* abort, which raises SIGABRT.
ChildTerminate(p) ==
    /\ children[p].st = "running"
    /\ children[p].frame.res = "error"
    /\ \E core \in BOOLEAN :
          children' = SetChild(p, Zombie(children[p], SignalStatus(SIGABRT, core)))
    /\ UNCHANGED <<forkEnv, exitEnv, tests, declared, pc, it, shouldFork,
                   shouldExit, passedTests, failedTests, frame, out, exitCode>>

\* ---- the parent after fork ----
\* Mutant: waitpid does not block (as with WNOHANG).
WaitReturns_NoBlock(c) == TRUE

\* waitpid(child, &status, 0) returns once the child has terminated.
WaitReturns(c) == c.st = "zombie"

\* Mutant: the WIFSIGNALED branch is missing.
Classify_NoSignalBranch(status) ==
    IF WIFEXITED(status)
    THEN IF WEXITSTATUS(status) = 0 THEN "passed" ELSE "failed"
    ELSE "none"

\* Mutant: the parent does not look at the exit status of the child.
Classify_IgnoresExitStatus(status) ==
    IF WIFEXITED(status)
    THEN "passed"
    ELSE IF WIFSIGNALED(status) THEN "signal" ELSE "none"

\* What the parent makes of the status: the line it writes and the counter
\* it increments; "none" when no branch is taken.
Classify(status) ==
    IF WIFEXITED(status)
    THEN IF WEXITSTATUS(status) = 0 THEN "passed" ELSE "failed"
    ELSE IF WIFSIGNALED(status) THEN "signal" ELSE "none"

\* The signal description the parent writes after "Signal: ".
ReportedSignal(status) == strsignal(WSTOPSIG(status))

WaitChild ==
    /\ pc = "wait"
    /\ it \in DOMAIN children
    /\ WaitReturns(children[it])
    /\ LET status == children[it].status
           verdict == Classify(status)
       IN  /\ out' = CASE verdict = "passed" ->
                            Append(out, Line("passed", it, "-", 0))
                       [] verdict = "failed" ->
                            Append(out, Line("failed", it, "-", 0))
                       [] verdict = "signal" ->
                            Append(out, Line("failed", it,
                                             ReportedSignal(status), 0))
                       [] OTHER -> out
           /\ passedTests' = IF verdict = "passed"
                             THEN passedTests + 1 ELSE passedTests
           /\ failedTests' = IF verdict \in {"failed", "signal"}
                             THEN failedTests + 1 ELSE failedTests
    /\ children' = IF children[it].st = "zombie"
                   THEN [p \in DOMAIN children \ {it} |-> children[p]]
                   ELSE children
    /\ it' = it + 1
    /\ pc' = "loop"
    /\ UNCHANGED <<forkEnv, exitEnv, tests, declared, shouldFork, shouldExit,
                   frame, exitCode>>

\* ---- after the loop ----
\* "## TEST RESULTS ##", the two counts and, if a test failed, the banner.
Summary ==
    /\ pc = "summary"
    /\ out' = out \o <<Line("results", 0, "-", 0),
                       Line("tests_passed", 0, "-", passedTests),
                       Line("tests_failed", 0, "-", failedTests)>>
                  \o (IF failedTests # 0
                      THEN <<Line("banner", 0, "-", 0)>> ELSE <<>>)
    /\ pc' = "exit_check"
    /\ UNCHANGED <<forkEnv, exitEnv, tests, declared, it, shouldFork,
                   shouldExit, passedTests, failedTests, frame, children,
                   exitCode>>

\* Mutant: exit(-1) whenever a test failed, whatever the flag.
ExitPolicy_IgnoresFlag ==
    /\ pc = "exit_check"
    /\ IF failedTests # 0
       THEN /\ out' = Append(out, Line("exiting", 0, "-", 0))
            /\ exitCode' = WEXITSTATUS(ExitStatus(-1))
            /\ pc' = "exited"
       ELSE /\ out' = Append(out, Line("blank", 0, "-", 0))
            /\ exitCode' = exitCode
            /\ pc' = "returned"
    /\ UNCHANGED <<forkEnv, exitEnv, tests, declared, it, shouldFork,
                   shouldExit, passedTests, failedTests, frame, children>>

\* if (shouldExit && failedTests) exit(-1); otherwise runAllTests returns.
ExitPolicy ==
    /\ pc = "exit_check"
    /\ IF shouldExit /\ failedTests # 0
       THEN /\ out' = Append(out, Line("exiting", 0, "-", 0))
            /\ exitCode' = WEXITSTATUS(ExitStatus(-1))
            /\ pc' = "exited"
       ELSE /\ out' = Append(out, Line("blank", 0, "-", 0))
            /\ exitCode' = exitCode
            /\ pc' = "returned"
    /\ UNCHANGED <<forkEnv, exitEnv, tests, declared, it, shouldFork,
                   shouldExit, passedTests, failedTests, frame, children>>

Next ==
    \/ \E n \in Names : Register(n)
    \/ Begin
    \/ StartTest
    \/ EndLoop
    \/ ForkChild
    \/ ForkError
    \/ CallDirect
    \/ DirectStep
    \/ DirectPassed
    \/ DirectCatch
    \/ DirectEscape
    \/ \E p \in DOMAIN children : ChildStep(p)
    \/ \E p \in DOMAIN children : ChildExit(p)
    \/ \E p \in DOMAIN children : ChildCatch(p)
    \/ \E p \in DOMAIN children : ChildTerminate(p)
    \/ WaitChild
    \/ Summary
    \/ ExitPolicy

Spec == Init /\ [][Next]_vars

\* The main process and the child are scheduled, and a test body of the model
\* has finitely many statements: some step is taken while one is possible.
FairSpec == Spec /\ WF_vars(Next)

\* ---- what the claims speak of ----
Finished == {"summary", "exit_check", "returned", "exited"}

\* The "Running test" lines written so far.
Starts == SelectSeq(out, LAMBDA l : l.ev = "start")

\* The child processes that have not terminated.
Running == {p \in DOMAIN children : children[p].st = "running"}

\* Every call of test() there is: in the main process, in the children.
Frames == {frame} \cup {children[p].frame : p \in DOMAIN children}

\* This step writes exactly one line, and it says ev.
Writes(ev) == Len(out') = Len(out) + 1 /\ out'[Len(out')].ev = ev

\* The parent's waitpid returns in this step.
Reaps == pc = "wait" /\ pc' = "loop" /\ it \in DOMAIN children

\* ---- C1 ----
\* C1: in isolation mode, when fork fails for a test, failedTests grows by
\* exactly one for that test and the runner goes on with the next test.
C1_SpawnFailureCountedFailed ==
    [][Writes("spawn_error") =>
          /\ failedTests' = failedTests + 1
          /\ passedTests' = passedTests
          /\ it' = it + 1
          /\ pc' = "loop"]_vars

\* ---- C2 ----
\* C2: in isolation mode a test body that raises an exception other than
\* KAssertionError, or is killed by a signal, costs exactly one failed test:
\* the parent counts it failed when it reaps the child and moves to the next
\* test, the main process is never killed and no exception leaves
\* runAllTests, and the run never stops short of the end of runAllTests:
\* until the process returns or exits some step is possible.
C2_IsolationContainsCrash ==
    /\ [][(Reaps /\ children[it].frame.res \in {"error", "signal"}) =>
             /\ failedTests' = failedTests + 1
             /\ passedTests' = passedTests
             /\ it' = it + 1
             /\ Writes("failed")]_vars
    /\ [](shouldFork =>
             /\ pc \notin {"killed", "escaped"}
             /\ pc \in {"returned", "exited"} \/ ENABLED Next
             /\ pc \in {"returned", "exited"} => Len(Starts) = Len(tests))

\* A crashed test was reported failed with a signal, a later test was started
\* after it, and runAllTests returned.
C2_Witness ==
    /\ pc = "returned"
    /\ shouldFork
    /\ \E j, k \in 1..Len(out) :
          /\ j < k
          /\ out[j].ev = "failed" /\ out[j].signal # "-"
          /\ out[k].ev = "start"

\* ---- C3 ----
\* C3: in a run that no exception or signal cuts short, the tests started are
\* the catalog entries 1, 2, ... each once and in turn, never more than the
\* catalog holds, and when the loop is over every entry has been started.
C3_EachTestStartedOnce ==
    /\ Len(Starts) <= Len(tests)
    /\ \A k \in 1..Len(Starts) : Starts[k].test = k
    /\ pc \in Finished => Len(Starts) = Len(tests)

C3_Witness ==
    /\ pc \in {"returned", "exited"}
    /\ Len(tests) = MaxTests
    /\ Len(Starts) = MaxTests

\* ---- C4 ----
\* C4: the k-th test the runner starts is the k-th test declared, with and
\* without isolation.
C4_RunOrderIsDeclarationOrder ==
    \A k \in 1..Len(Starts) :
        /\ Starts[k].test \in 1..Len(tests)
        /\ k \in 1..Len(declared)
        /\ tests[Starts[k].test].fn = declared[k]

\* Three tests were declared and all three started.
C4_Witness ==
    /\ Len(declared) = 3
    /\ Len(Starts) = 3
    /\ tests[Starts[3].test].fn = 3

\* ---- C5 ----
\* C5: at most one child process is alive at any time, and whenever the
\* runner is about to start a test or to spawn its child no child is alive
\* and every earlier test has its outcome: a pass line, a fail line or a
\* spawn error.
Outcomes == SelectSeq(out, LAMBDA l : l.ev \in {"passed", "failed", "spawn_error"})

C5_StrictlySequential ==
    /\ Cardinality(Running) <= 1
    /\ pc \in {"loop", "dispatch"} =>
          /\ Running = {}
          /\ Len(Outcomes) = it - 1
          /\ \A k \in 1..Len(Outcomes) : Outcomes[k].test = k
    /\ pc = "dispatch" => Len(Starts) = it

\* The parent is blocked in waitpid on the running child of the second test,
\* the child of the first test being gone.
C5_Witness ==
    /\ pc = "wait"
    /\ shouldFork
    /\ it = 2
    /\ Running = {2}

\* ---- C6 ----
\* C6: no KAssertionError ever leaves runAllTests, and a test in whose body
\* a failing assertion threw one is counted failed: without isolation by the
\* catch around test(), after which the next test runs; with isolation by a
\* nonzero exit status of the child that the parent counts as failed.
C6_AbortCaughtAtTestBoundary ==
    /\ [](pc = "escaped" => frame.exc # "KAssertionError")
    /\ [][(pc = "body" /\ frame.aborts > 0 /\ pc' # "body") =>
             /\ pc' = "loop"
             /\ it' = it + 1
             /\ failedTests' = failedTests + 1
             /\ passedTests' = passedTests]_vars
    /\ [][(Reaps /\ children[it].frame.aborts > 0) =>
             /\ WIFEXITED(children[it].status)
             /\ WEXITSTATUS(children[it].status) # 0
             /\ failedTests' = failedTests + 1
             /\ passedTests' = passedTests]_vars

\* ---- C7 ----
\* C7: in every call of test(), each failing assertion throws exactly one
\* KAssertionError and a passing one throws none, and once an assertion has
\* failed no later statement of that body runs.
C7_FailingAssertionEndsBody ==
    \A f \in Frames :
        /\ f.aborts = f.failed
        /\ ~f.after

\* ---- C8 ----
\* C8: without isolation, an exception other than KAssertionError that
\* leaves a test body leaves runAllTests: no line is written and no counter
\* changes for that test, no later test is started and no summary is
\* written.
C8_DirectErrorEndsRun ==
    /\ [][(pc = "body" /\ frame.res = "error") =>
             /\ pc' = "escaped"
             /\ out' = out
             /\ passedTests' = passedTests
             /\ failedTests' = failedTests]_vars
    /\ [](pc = "escaped" =>
             /\ ~shouldFork
             /\ out[Len(out)] = Line("start", it, "-", 0)
             /\ Len(Starts) = it
             /\ passedTests + failedTests = it - 1
             /\ \A k \in 1..Len(out) : out[k].ev # "results"
             /\ ~ENABLED Next)

\* An exception left runAllTests while a test of the catalog was not started.
C8_Witness ==
    /\ pc = "escaped"
    /\ it < Len(tests)
    /\ frame.res = "error"

\* ---- C9 ----
\* C9: the process exits, with status 255, exactly when the nonzero-exit flag
\* is set and a test was counted failed; otherwise runAllTests returns.  In
\* both cases every test was run and the summary was written before.
SummaryWritten ==
    \E k \in 1..Len(out) :
        /\ out[k].ev = "tests_failed"
        /\ out[k].n = failedTests
        /\ \A j \in k..Len(out) : out[j].ev \notin {"start", "passed", "failed"}

C9_ExitPolicy ==
    /\ pc = "exited" =>
          /\ shouldExit /\ failedTests > 0
          /\ exitCode = 255
          /\ SummaryWritten
          /\ Len(Starts) = Len(tests)
    /\ pc = "returned" =>
          /\ ~(shouldExit /\ failedTests > 0)
          /\ exitCode = -1
          /\ SummaryWritten
          /\ Len(Starts) = Len(tests)
    /\ exitCode # -1 => pc = "exited"

\* The flag is set, a test failed, and the process exited after the summary.
C9_Witness ==
    /\ pc = "exited"
    /\ failedTests > 0
    /\ passedTests > 0

\* ---- C10 ----
\* C10: when the parent reaps a child, exactly one counter grows by one:
\* passedTests if the body returned (the child exited with status 0),
\* failedTests if the child exited with a nonzero status (the body was left by
\* a KAssertionError) or was killed by a signal (a fault, or abort after an
\* uncaught exception).
C10_IsolationClassification ==
    [][Reaps =>
          LET res == children[it].frame.res
          IN  /\ children[it].st = "zombie"
              /\ res \in {"ret", "abort", "error", "signal"}
              /\ res = "ret" =>
                    /\ passedTests' = passedTests + 1
                    /\ failedTests' = failedTests
              /\ res \in {"abort", "error", "signal"} =>
                    /\ failedTests' = failedTests + 1
                    /\ passedTests' = passedTests]_vars

\* One run has reaped a child that exited with 0, one that exited with a
\* nonzero status and one that a signal killed.
C10_Witness ==
    /\ shouldFork
    /\ passedTests = 1
    /\ failedTests = 2
    /\ \E k \in 1..Len(out) : out[k].ev = "failed" /\ out[k].signal # "-"
    /\ \E k \in 1..Len(out) : out[k].ev = "failed" /\ out[k].signal = "-"

\* ---- C11 ----
\* The signal that killed child c: the one of the fault, or SIGABRT when an
\* uncaught exception ended in std::terminate.
KilledBy(c) == IF c.frame.res = "signal" THEN c.frame.sig ELSE SIGABRT

\* C11: when the parent reaps a child that a signal killed, the failure line
\* it writes carries the description of that very signal.
C11_ReportNamesKillingSignal ==
    [][(Reaps /\ children[it].frame.res \in {"error", "signal"}) =>
          /\ Writes("failed")
          /\ out'[Len(out')].signal = strsignal(KilledBy(children[it]))]_vars

\* ---- C12 ----
\* The block raised kind k and KASSERT_THROWS(e, ...) was the last statement
\* of frame f.
RanThrows(f, e, k) ==
    f.last.op = "throws" /\ f.last.expected = e /\ f.last.raised = k

\* The assertion passed: control went on to the next statement or the return.
Passed(f) == f.res \in {"run", "ret"}

\* The assertion failed with message m: KAssertionHelper wrote m and threw.
FailedWith(f, m) == f.res = "abort" /\ f.msg = m

\* k is e or derives from e, and k derives from std::exception, as the class
\* declarations say.
StdKinds == {"exception", "runtime_error", "logic_error", "KAssertionError"}
IsKind(k, e) == k = e \/ (e = "exception" /\ k \in StdKinds)

\* What a thrower block raises by a throw of its own; a failing assertion
\* inside the block is the matter of C20.
ThrownKinds == RaisedKinds \ {"KAssertionError"}

\* C12 as stated: THROWS(K) on a block raising K passes; THROWS(K2) with K2
\* other than the kind K raised fails naming K; THROWS on a block raising
\* nothing fails saying so.
C12_ThrowsAsStated ==
    \A f \in Frames : \A e \in ExpectedKinds : \A k \in ThrownKinds :
        RanThrows(f, e, k) =>
            /\ k = e => Passed(f)
            /\ (k # "none" /\ k # e) =>
                  FailedWith(f, <<"ASSERT_THROWS", "different", k>>)
            /\ k = "none" => FailedWith(f, <<"ASSERT_THROWS", "no exception">>)

\* C12 amended: THROWS(E) passes when the kind raised is E or derives from
\* E; it fails naming the kind raised when that kind derives from
\* std::exception and is neither E nor derived from E; a thrown value that
\* is neither leaves the assertion as an ordinary exception; a block raising
\* nothing fails saying so.
C12_ThrowsOutcomes ==
    \A f \in Frames : \A e \in ExpectedKinds : \A k \in ThrownKinds :
        RanThrows(f, e, k) =>
            /\ (k # "none" /\ IsKind(k, e)) => Passed(f)
            /\ (k \in StdKinds /\ ~IsKind(k, e)) =>
                  FailedWith(f, <<"ASSERT_THROWS", "different", k>>)
            /\ (k \notin StdKinds /\ k # "none" /\ ~IsKind(k, e)) =>
                  f.res = "error" /\ f.exc = k
            /\ k = "none" => FailedWith(f, <<"ASSERT_THROWS", "no exception">>)

\* A THROWS expecting runtime_error met a logic_error and failed naming it.
C12_Witness ==
    \E f \in Frames :
        /\ RanThrows(f, "runtime_error", "logic_error")
        /\ FailedWith(f, <<"ASSERT_THROWS", "different", "logic_error">>)

\* ---- C13 ----
\* The status of the test at position t as the lines o tell it.
StatusIn(o, t) ==
    LET has(ev) == \E k \in 1..Len(o) : o[k].ev = ev /\ o[k].test = t
    IN  IF has("passed") /\ has("failed") THEN "Both"
        ELSE IF has("passed") THEN "Passed"
        ELSE IF has("failed") THEN "Failed"
        ELSE IF has("start") THEN "Running"
        ELSE "NotRun"

StatusSteps ==
    {<<"NotRun", "Running">>, <<"Running", "Passed">>, <<"Running", "Failed">>}

\* C13: the status of every test changes only along NotRun -> Running ->
\* Passed or Failed, no test is ever both, and when the runner moves on from
\* a test that test is Passed or Failed.
C13_TestStateMachine ==
    [][/\ \A t \in 1..Len(tests) :
             /\ StatusIn(out', t) # "Both"
             /\ \/ StatusIn(out', t) = StatusIn(out, t)
                \/ <<StatusIn(out, t), StatusIn(out', t)>> \in StatusSteps
       /\ (it \in 1..Len(tests) /\ it' # it) =>
             StatusIn(out', it) \in {"Passed", "Failed"}]_vars

\* ---- C14 ----
\* C14: each declaration puts exactly one new entry, holding the declared
\* function, at the end of the catalog and leaves the entries before it as
\* they were; nothing else changes the catalog; whatever the names, every
\* declared test is in the catalog and has been started once the loop is
\* over.
C14_OneAppendPerDeclaration ==
    /\ [][Len(declared') = Len(declared) + 1 =>
             /\ Len(tests') = Len(tests) + 1
             /\ SubSeq(tests', 1, Len(tests)) = tests
             /\ tests'[Len(tests')].fn = declared'[Len(declared')]]_vars
    /\ [][declared' = declared => tests' = tests]_vars
    /\ [](Len(tests) = Len(declared))
    /\ [](pc \in Finished => Len(Starts) = Len(declared))

\* Two tests of one name are both in the catalog and both have run.
C14_Witness ==
    /\ pc = "returned"
    /\ Len(tests) = 2
    /\ tests[1].name = tests[2].name
    /\ tests[1].fn # tests[2].fn
    /\ StatusIn(out, 1) \in {"Passed", "Failed"}
    /\ StatusIn(out, 2) \in {"Passed", "Failed"}

\* ---- C15 ----
\* The start and completion lines written so far.
TestLines == SelectSeq(out, LAMBDA l : l.ev \in {"start", "passed", "failed"})

CountOf(ev) == Cardinality({k \in 1..Len(out) : out[k].ev = ev})

AfterSummary == {"exit_check", "returned", "exited"}

\* C15: the start and completion lines alternate, start of test 1, pass or
\* fail of test 1, start of test 2, ...; the summary block is written once,
\* after the completion line of the last test and followed by no test line;
\* the banner is written exactly when failedTests > 0.
C15_ReportOrder ==
    /\ \A k \in 1..Len(TestLines) :
          IF k % 2 = 1
          THEN TestLines[k].ev = "start" /\ TestLines[k].test = (k + 1) \div 2
          ELSE TestLines[k].ev \in {"passed", "failed"}
               /\ TestLines[k].test = k \div 2
    /\ CountOf("results") <= 1
    /\ CountOf("banner") <= 1
    /\ CountOf("results") = 1 <=> pc \in AfterSummary
    /\ pc \in AfterSummary =>
          /\ Len(TestLines) = 2 * Len(tests)
          /\ \A j, k \in 1..Len(out) :
                (out[j].ev = "results" /\ out[k].ev \in {"start", "passed", "failed"})
                    => k < j
          /\ CountOf("banner") = 1 <=> failedTests > 0

\* ---- C16 ----
\* C16: once runAllTests has read the environment, isolation is on exactly
\* when KTEST_FORK is "1" and the exit policy exactly when KTEST_EXIT is
\* "1"; a child process exists only with KTEST_FORK = "1", a test body runs
\* in the main process only without it, and the process exits only with
\* KTEST_EXIT = "1".
C16_FlagsFromEnvironment ==
    /\ pc # "static_init" =>
          /\ shouldFork <=> forkEnv = "1"
          /\ shouldExit <=> exitEnv = "1"
    /\ DOMAIN children # {} => forkEnv = "1"
    /\ pc \in {"body", "killed", "escaped"} => forkEnv # "1"
    /\ pc = "exited" => exitEnv = "1"

\* KTEST_FORK is set to "0" and a test body runs in the main process;
\* KTEST_EXIT is "1".
C16_Witness ==
    /\ forkEnv = "0"
    /\ exitEnv = "1"
    /\ pc = "body"
    /\ ~shouldFork
    /\ shouldExit

\* ---- C17 ----
\* C17: whenever the loop is over passedTests + failedTests is the size of
\* the catalog; at every moment the sum is at most the number of tests
\* started, and no step makes a counter smaller.
C17_CountersAddUp ==
    [][/\ pc' \in Finished => passedTests' + failedTests' = Len(tests')
       /\ passedTests' + failedTests' <= Len(Starts')
       /\ passedTests' >= passedTests
       /\ failedTests' >= failedTests]_vars

\* ---- C18 ----
\* The child p takes a step: it is there before and after, and changed.
ChildActs(p) ==
    /\ p \in DOMAIN children
    /\ p \in DOMAIN children'
    /\ children'[p] # children[p]

\* C18: a step of a child is a step of the body of the test the parent is
\* waiting for, or the termination after it: the child was running, the
\* output, the counters, the position in the catalog and the parent are
\* left alone, and once terminated the child has status 0 if the body
\* returned, a nonzero exit status if an assertion aborted it, and a
\* signal otherwise.
C18_ChildRunsOnlyItsBody ==
    [][\A p \in DOMAIN children : ChildActs(p) =>
          /\ p = it
          /\ pc = "wait"
          /\ children[p].st = "running"
          /\ UNCHANGED <<out, passedTests, failedTests, it, pc, frame,
                         exitCode, tests>>
          /\ children'[p].st = "running" =>
                /\ children[p].frame.res = "run"
                /\ children'[p].frame.len = children[p].frame.len
          /\ children'[p].st = "zombie" =>
                LET f  == children'[p].frame
                    st == children'[p].status
                IN  /\ f.res # "run"
                    /\ f.res = "ret" =>
                          WIFEXITED(st) /\ WEXITSTATUS(st) = 0
                    /\ f.res = "abort" =>
                          WIFEXITED(st) /\ WEXITSTATUS(st) # 0
                    /\ f.res \in {"signal", "error"} => WIFSIGNALED(st)]_vars

\* C18 witness: the child of the second test has terminated on an abort
\* with exit status 255; the last line of the output is still the
\* "Running test" line of that test and one earlier test was counted.
C18_Witness ==
    /\ pc = "wait"
    /\ it = 2
    /\ it \in DOMAIN children
    /\ children[it].st = "zombie"
    /\ children[it].frame.res = "abort"
    /\ WEXITSTATUS(children[it].status) = 255
    /\ out[Len(out)].ev = "start"
    /\ out[Len(out)].test = it
    /\ passedTests + failedTests = 1

\* ---- C19 ----
\* The call of test() whose verdict the runner is about to give: the frame
\* of the main process, or the one of the child it waits for.
Judged == IF shouldFork THEN children[it].frame ELSE frame

\* The runner gives its verdict on the current test in this step.
VerdictStep ==
    /\ pc \in {"body", "wait"}
    /\ pc' = "loop"
    /\ shouldFork => it \in DOMAIN children

\* The outcome of a body that returned or was aborted by an assertion.
Verdict(f) == IF f.res = "ret" THEN "passed" ELSE "failed"

C20_AbortCaughtOnlyByRunner ==
    \A f \in Frames :
        /\ f.aborts > 0 => f.failed > 0
        /\ f.failed > 0 => f.res = "abort"

====
